---------------------------- MODULE Spec2Model ----------------------------
(***************************************************************************)
(* Hospital stock dashboard (src/app.py).                                  *)
(*                                                                         *)
(* The program keeps its data in a warehouse: the table STOCK_RECORDS     *)
(* and two derived (dynamic) tables defined by SQL,                        *)
(*   CURRENT_STOCK_STATUS      (app.py 137-171) and                        *)
(*   REORDER_RECOMMENDATIONS   (app.py 173-201),                           *)
(* and reads them with get_current_stock_data / get_reorder_recommendations*)
(* (app.py 239-287).                                                       *)
(*                                                                         *)
(* Modelling choices                                                       *)
(*  - A table is a sequence of rows; the position of a row is only its     *)
(*    identity (SQL tables are bags), no operation reads the insertion     *)
(*    order.                                                               *)
(*  - The columns opening_stock and received are never read by the SQL     *)
(*    that is modelled; they are left out of the rows.  hospital_name is   *)
(*    carried through unchanged; hospital_id stands for it (one name for   *)
(*    each id).                                                            *)
(*  - AVG, "/" and "*" are exact rational arithmetic: a number is an       *)
(*    integer or a record [num, den] with den > 0.  The warehouse's        *)
(*    fixed-point scale of NUMBER results is not modelled.                 *)
(*  - An ORDER BY whose sort keys tie leaves the order of the tied rows    *)
(*    to the warehouse: every order compatible with the keys is possible.  *)
(*  - A dynamic table is filled when it is created and is refreshed at     *)
(*    some later time within its TARGET_LAG; a refresh is a step of its    *)
(*    own.                                                                 *)
(*  - A NULL of a numeric column is NaN in the fetched frame; int() of it  *)
(*    raises.  The charts of the page are not modelled.                    *)
(*                                                                         *)
(* Two specifications                                                      *)
(*  - SpecEngine: the SQL and the page over one fixed STOCK_RECORDS.       *)
(*  - Spec: the page runs of several sessions on one warehouse, with the   *)
(*    load of sample_data.csv and the refreshes interleaved.               *)
(***************************************************************************)
EXTENDS Integers, Sequences, FiniteSets, TLC

VARIABLES
    records,        \* STOCK_RECORDS: sequence of rows
    status_table,   \* CURRENT_STOCK_STATUS: [exists, rows (a set)]
    reorder_table,  \* REORDER_RECOMMENDATIONS: [exists, rows (a set)]
    stock_df,       \* result of get_current_stock_data: [fetched, rows (a sequence)]
    reorder_df,     \* result of get_reorder_recommendations: [fetched, rows (a sequence)]
    page,           \* what the main content rendered from the two frames
    stock_records_exists,   \* whether the table STOCK_RECORDS exists
    csv,            \* the rows of sample_data.csv
    sessions        \* st.session_state and the page run of every browser session

engineVars == <<stock_df, reorder_df, page>>
appVars == <<stock_records_exists, csv, sessions>>
vars == <<records, status_table, reorder_table, stock_df, reorder_df, page,
          stock_records_exists, csv, sessions>>

-----------------------------------------------------------------------------
(* Bounds of the model *)

MaxRecords == 3     \* rows of an arbitrary STOCK_RECORDS table
MaxSeriesLen == 8   \* records of one long single-key series
MaxShortLen == 3    \* records of one short single-key series
MaxIssued == 2      \* issued per day
MaxStock == 6       \* closing_stock
MaxLead == 3        \* lead_time_days
MaxMin == 2         \* min_stock_level
MaxSessions == 2    \* browser sessions on the one warehouse

(* Program constants *)

WindowPreceding == 6     \* ROWS BETWEEN 6 PRECEDING AND CURRENT ROW
CriticalBufferDays == 30 \* lead_time_days + 30
WarningBufferDays == 15  \* lead_time_days + 15
PriorityCritical == 1
PriorityWarning == 2
PriorityOther == 3

\* VARCHAR values in their collation order
HospitalIds == <<"H001", "H002">>
MedicineNames == <<"Amoxicillin", "Paracetamol">>

Absent == [exists |-> FALSE, rows |-> {}]
Table(rows) == [exists |-> TRUE, rows |-> rows]
NotFetched == [fetched |-> FALSE, rows |-> <<>>]
DataFrame(rows) == [fetched |-> TRUE, rows |-> rows]
SqlNull == [null |-> TRUE]

-----------------------------------------------------------------------------
(* SQL scalar arithmetic *)

IsNull(x) == x = SqlNull

\* NULLIF(x, 0) for a rational x
NullIfZero(x) == IF x.num = 0 THEN SqlNull ELSE x

\* n / x for an integer n and a nullable rational x (x # 0); the result keeps
\* its denominator positive
Divide(n, x) ==
    IF IsNull(x) THEN SqlNull
    ELSE IF x.num > 0 THEN [num |-> n * x.den, den |-> x.num]
    ELSE [num |-> 0 - n * x.den, den |-> 0 - x.num]

\* x <= n for a nullable rational x and an integer n: TRUE, FALSE or NULL;
\* a WHEN condition that is NULL is not satisfied
LessEqIsTrue(x, n) == IF IsNull(x) THEN FALSE ELSE x.num <= n * x.den

\* the integer nearest to n / d (d > 0), halves away from zero
RoundDiv(n, d) ==
    IF n >= 0 THEN (2 * n + d) \div (2 * d)
              ELSE -((2 * (-n) + d) \div (2 * d))

\* ROUND(x): nullable rational to integer
Round0(x) == IF IsNull(x) THEN SqlNull ELSE RoundDiv(x.num, x.den)

\* ROUND(x, 1): nullable rational to a number of tenths
Round1(x) == IF IsNull(x) THEN SqlNull ELSE [tenths |-> RoundDiv(10 * x.num, x.den)]

\* GREATEST(a, 0)
Greatest0(a) == IF a >= 0 THEN a ELSE 0

\* x * n and x - n for a rational x and an integer n
Times(x, n) == [num |-> x.num * n, den |-> x.den]
Minus(x, n) == [num |-> x.num - n * x.den, den |-> x.den]

-----------------------------------------------------------------------------
(* ORDER BY *)

IndexOf(seq, v) == CHOOSE i \in 1..Len(seq) : seq[i] = v

\* Every sequence of the members of S in non-decreasing rank: the orders an
\* ORDER BY can produce (ties in any order)
RECURSIVE SortOrders(_, _)
SortOrders(S, rank) ==
    IF S = {} THEN {<<>>}
    ELSE LET first == {i \in S : \A j \in S : rank[i] <= rank[j]}
         IN  UNION {{<<i>> \o o : o \in SortOrders(S \ {i}, rank)} : i \in first}

-----------------------------------------------------------------------------
(* CURRENT_STOCK_STATUS (app.py 142-170) *)

\* PARTITION BY hospital_id, medicine_name: the rows of one partition
PartitionRowsByHospital(recs, h, m) ==
    {i \in 1..Len(recs) : recs[i].hospital_id = h}
PartitionRows(recs, h, m) ==
    {i \in 1..Len(recs) : recs[i].hospital_id = h /\ recs[i].medicine_name = m}

PartitionKeys(recs) ==
    {<<recs[i].hospital_id, recs[i].medicine_name>> : i \in 1..Len(recs)}

\* ORDER BY date
DateAscOrders(recs, P) == SortOrders(P, [i \in P |-> recs[i].date])

\* ORDER BY date DESC
DateDescOrders(recs, P) == SortOrders(P, [i \in P |-> 0 - recs[i].date])

\* ROWS BETWEEN 6 PRECEDING AND CURRENT ROW, for the row at position pos
FrameWide(pos) == 1..pos
FrameStart(pos) == IF pos - WindowPreceding >= 1 THEN pos - WindowPreceding ELSE 1
Frame(pos) == FrameStart(pos)..pos

RECURSIVE SumIssued(_, _, _)
SumIssued(recs, order, F) ==
    IF F = {} THEN 0
    ELSE LET p == CHOOSE q \in F : TRUE
         IN  recs[order[p]].issued + SumIssued(recs, order, F \ {p})

\* AVG(issued) OVER (... ROWS BETWEEN 6 PRECEDING AND CURRENT ROW)
AvgIssued(recs, order, pos) ==
    [num |-> SumIssued(recs, order, Frame(pos)), den |-> Cardinality(Frame(pos))]

\* the CASE of stock_status (app.py 154-162)
StockStatusNullAsZero(closing_stock, min_stock_level, lead_time_days, avg) ==
    IF closing_stock <= min_stock_level THEN "CRITICAL"
    ELSE IF avg.num = 0 \/ closing_stock * avg.den <= lead_time_days * avg.num THEN "WARNING"
    ELSE "HEALTHY"
StockStatusWarningFirst(closing_stock, min_stock_level, lead_time_days, avg) ==
    IF LessEqIsTrue(Divide(closing_stock, NullIfZero(avg)), lead_time_days) THEN "WARNING"
    ELSE IF closing_stock <= min_stock_level THEN "CRITICAL"
    ELSE "HEALTHY"
StockStatusFlipped(closing_stock, min_stock_level, lead_time_days, avg) ==
    IF closing_stock <= min_stock_level THEN "CRITICAL"
    ELSE IF ~IsNull(NullIfZero(avg))
            /\ closing_stock * avg.den >= lead_time_days * avg.num THEN "WARNING"
    ELSE "HEALTHY"
StockStatusStrict(closing_stock, min_stock_level, lead_time_days, avg) ==
    IF closing_stock <= min_stock_level THEN "CRITICAL"
    ELSE IF ~IsNull(NullIfZero(avg))
            /\ closing_stock * avg.den < lead_time_days * avg.num THEN "WARNING"
    ELSE "HEALTHY"
StockStatus(closing_stock, min_stock_level, lead_time_days, avg) ==
    IF closing_stock <= min_stock_level THEN "CRITICAL"
    ELSE IF LessEqIsTrue(Divide(closing_stock, NullIfZero(avg)), lead_time_days) THEN "WARNING"
    ELSE "HEALTHY"

\* ROUND(closing_stock / NULLIF(AVG(...), 0), 1) (app.py 163-167)
DaysUntilStockoutTruncated(closing_stock, avg) ==
    LET q == Divide(closing_stock, NullIfZero(avg))
    IN  IF IsNull(q) THEN SqlNull ELSE [tenths |-> (10 * q.num) \div q.den]
DaysUntilStockout(closing_stock, avg) == Round1(Divide(closing_stock, NullIfZero(avg)))

\* the SELECT list for the row recs[i], which stands at position pos of the
\* date order of its partition
StatusRowEarliestLevels(recs, order, pos) ==
    LET r == recs[order[pos]]
        avg == AvgIssued(recs, order, pos)
    IN  [hospital_id |-> r.hospital_id,
         medicine_name |-> r.medicine_name,
         current_stock |-> r.closing_stock,
         min_stock_level |-> recs[order[1]].min_stock_level,
         lead_time_days |-> r.lead_time_days,
         avg_daily_usage |-> avg,
         stock_status |-> StockStatus(r.closing_stock, r.min_stock_level,
                                      r.lead_time_days, avg),
         days_until_stockout |-> DaysUntilStockout(r.closing_stock, avg),
         date |-> r.date]
StatusRow(recs, order, pos) ==
    LET r == recs[order[pos]]
        avg == AvgIssued(recs, order, pos)
    IN  [hospital_id |-> r.hospital_id,
         medicine_name |-> r.medicine_name,
         current_stock |-> r.closing_stock,
         min_stock_level |-> r.min_stock_level,
         lead_time_days |-> r.lead_time_days,
         avg_daily_usage |-> avg,
         stock_status |-> StockStatus(r.closing_stock, r.min_stock_level,
                                      r.lead_time_days, avg),
         days_until_stockout |-> DaysUntilStockout(r.closing_stock, avg),
         date |-> r.date]

\* QUALIFY ROW_NUMBER() OVER (PARTITION BY ... ORDER BY date DESC) = 1:
\* the rows of the partition that keep row number 1 under the order desc
QualifyOldest(desc) == {desc[Len(desc)]}
QualifyFirstOrLast(desc) == {desc[1], desc[Len(desc)]}
Qualify(desc) == {desc[1]}

\* The rows of one partition that the query can return: the window order asc
\* and the row-number order desc are sorted independently
PartitionResults(recs, P) ==
    {StatusRow(recs, asc, IndexOf(asc, i)) :
        asc \in DateAscOrders(recs, P),
        i \in UNION {Qualify(desc) : desc \in DateDescOrders(recs, P)}}

\* Every table the query can return over recs
RECURSIVE QueryResults(_, _)
QueryResults(recs, keys) ==
    IF keys = {} THEN {{}}
    ELSE LET k == CHOOSE x \in keys : TRUE
         IN  {{row} \cup rest :
                 row \in PartitionResults(recs, PartitionRows(recs, k[1], k[2])),
                 rest \in QueryResults(recs, keys \ {k})}

CurrentStockStatusQuery(recs) == QueryResults(recs, PartitionKeys(recs))

-----------------------------------------------------------------------------
(* REORDER_RECOMMENDATIONS (app.py 178-200) *)

\* GREATEST(ROUND((avg_daily_usage * (lead_time_days + buffer)) - current_stock), 0)
OrderQuantityUnrounded(avg_daily_usage, lead_time_days, current_stock, buffer) ==
    Minus(Times(avg_daily_usage, lead_time_days + buffer), current_stock)

\* the CASE of recommended_order_quantity (app.py 187-193)
RecommendedOrderQuantityNoFloor(s) ==
    IF s.stock_status = "CRITICAL" THEN
        Round0(OrderQuantityUnrounded(s.avg_daily_usage, s.lead_time_days,
                                      s.current_stock, CriticalBufferDays))
    ELSE IF s.stock_status = "WARNING" THEN
        Round0(OrderQuantityUnrounded(s.avg_daily_usage, s.lead_time_days,
                                      s.current_stock, WarningBufferDays))
    ELSE 0
RecommendedOrderQuantitySameBuffer(s) ==
    IF s.stock_status \in {"CRITICAL", "WARNING"} THEN
        Greatest0(Round0(OrderQuantityUnrounded(s.avg_daily_usage, s.lead_time_days,
                                                s.current_stock, CriticalBufferDays)))
    ELSE 0
RecommendedOrderQuantityNoLead(s) ==
    IF s.stock_status = "CRITICAL" THEN
        Greatest0(Round0(OrderQuantityUnrounded(s.avg_daily_usage, 0,
                                                s.current_stock, CriticalBufferDays)))
    ELSE IF s.stock_status = "WARNING" THEN
        Greatest0(Round0(OrderQuantityUnrounded(s.avg_daily_usage, s.lead_time_days,
                                                s.current_stock, WarningBufferDays)))
    ELSE 0
RecommendedOrderQuantity(s) ==
    IF s.stock_status = "CRITICAL" THEN
        Greatest0(Round0(OrderQuantityUnrounded(s.avg_daily_usage, s.lead_time_days,
                                                s.current_stock, CriticalBufferDays)))
    ELSE IF s.stock_status = "WARNING" THEN
        Greatest0(Round0(OrderQuantityUnrounded(s.avg_daily_usage, s.lead_time_days,
                                                s.current_stock, WarningBufferDays)))
    ELSE 0

\* the CASE of priority (app.py 194-198)
Priority(s) ==
    IF s.stock_status = "CRITICAL" THEN PriorityCritical
    ELSE IF s.stock_status = "WARNING" THEN PriorityWarning
    ELSE PriorityOther

ReorderRow(s) ==
    [hospital_id |-> s.hospital_id,
     medicine_name |-> s.medicine_name,
     current_stock |-> s.current_stock,
     avg_daily_usage |-> s.avg_daily_usage,
     lead_time_days |-> s.lead_time_days,
     stock_status |-> s.stock_status,
     days_until_stockout |-> s.days_until_stockout,
     recommended_order_quantity |-> RecommendedOrderQuantity(s),
     priority |-> Priority(s)]

\* SELECT ... FROM CURRENT_STOCK_STATUS; the ORDER BY of the definition does
\* not change the set of rows stored
ReorderRecommendationsQuery(status) == {ReorderRow(s) : s \in status}

-----------------------------------------------------------------------------
(* The read queries (app.py 239-287) *)

\* ORDER BY HOSPITAL_ID, MEDICINE_NAME
KeyRank(r) ==
    IndexOf(HospitalIds, r.hospital_id) * (Len(MedicineNames) + 1)
        + IndexOf(MedicineNames, r.medicine_name)

\* ORDER BY PRIORITY, DAYS_UNTIL_STOCKOUT: ascending, NULL after every value
MaxTenths(rows) ==
    LET vals == {r.days_until_stockout.tenths :
                    r \in {q \in rows : ~IsNull(q.days_until_stockout)}}
    IN  IF vals = {} THEN 0 ELSE CHOOSE v \in vals : \A w \in vals : w <= v

PriorityDaysRank(rows, r) ==
    r.priority * (MaxTenths(rows) + 2)
        + (IF IsNull(r.days_until_stockout) THEN MaxTenths(rows) + 1
           ELSE r.days_until_stockout.tenths)

\* the data frames a query can return: the rows in an order the ORDER BY allows
Frames(rows, rank) == {DataFrame(o) : o \in SortOrders(rows, rank)}

\* get_current_stock_data
CurrentStockData(status) == Frames(status, [r \in status |-> KeyRank(r)])

\* get_reorder_recommendations: WHERE STOCK_STATUS IN ('CRITICAL', 'WARNING')
ReorderWhereNone(r) == TRUE
ReorderWhere(r) == r.stock_status \in {"CRITICAL", "WARNING"}

ReorderRecommendations(reorder) ==
    LET rows == {r \in reorder : ReorderWhere(r)}
    IN  Frames(rows, [r \in rows |-> PriorityDaysRank(rows, r)])

-----------------------------------------------------------------------------
(* The main content (app.py 657-1332) *)

NotRendered == [outcome |-> "none"]

\* the except clause of the main content (app.py 1331-1332)
ErrorFetchingData == [outcome |-> "error"]

AllMedicines == "All Medicines"
AllHospitals == "All Hospitals"

\* the options of the two select boxes (app.py 668, 673)
MedicineChoices(stock_rows) ==
    {AllMedicines} \cup {stock_rows[i].medicine_name : i \in 1..Len(stock_rows)}
HospitalChoices(stock_rows) ==
    {AllHospitals} \cup {stock_rows[i].hospital_id : i \in 1..Len(stock_rows)}

\* df[df[column] == value]: the rows that pass, in their order
RECURSIVE SelectRows(_, _, _)
SelectRows(rows, med, hosp) ==
    IF rows = <<>> THEN <<>>
    ELSE LET r == Head(rows)
             keep == /\ (med = AllMedicines \/ r.medicine_name = med)
                     /\ (hosp = AllHospitals \/ r.hospital_id = hosp)
         IN  (IF keep THEN <<r>> ELSE <<>>) \o SelectRows(Tail(rows), med, hosp)

\* a NULL of a numeric column is NaN in the data frame; int(NaN) raises
IntRaises(x) == IsNull(x)

\* int(x) for a rational x: the fraction is dropped
IntOfRational(x) ==
    IF x.num >= 0 THEN x.num \div x.den ELSE 0 - ((0 - x.num) \div x.den)

\* int(x) for a number of tenths
IntOfTenths(x) ==
    IF x.tenths >= 0 THEN x.tenths \div 10 ELSE 0 - ((0 - x.tenths) \div 10)

\* the Detailed Info cards (app.py 786-812): one for every row of
\* filtered_stock_df when a medicine is selected
CardsRaise(filtered, med) ==
    /\ med # AllMedicines
    /\ \E i \in 1..Len(filtered) : IntRaises(filtered[i].days_until_stockout)

Cards(filtered, med) ==
    IF med = AllMedicines THEN <<>>
    ELSE [i \in 1..Len(filtered) |->
            [hospital_id |-> filtered[i].hospital_id,
             current_stock |-> filtered[i].current_stock,
             avg_daily_usage |-> IntOfRational(filtered[i].avg_daily_usage),
             days_until_stockout |-> IntOfTenths(filtered[i].days_until_stockout)]]

\* df.head(n)
HeadRows(rows, n) == SubSeq(rows, 1, IF Len(rows) < n THEN Len(rows) ELSE n)

RECURSIVE StatusRows(_, _)
StatusRows(rows, st) ==
    IF rows = <<>> THEN <<>>
    ELSE (IF Head(rows).stock_status = st THEN <<Head(rows)>> ELSE <<>>)
            \o StatusRows(Tail(rows), st)

\* generate_alert_summary (app.py 433-455)
GenerateAlertSummaryNoEmptyCase(reorder_rows) ==
    LET critical == StatusRows(reorder_rows, "CRITICAL")
        top_critical == HeadRows(critical, 3)
    IN  [kind |-> "alert",
         critical_count |-> Len(critical),
         warning_count |-> Len(StatusRows(reorder_rows, "WARNING")),
         urgent |-> [i \in 1..Len(top_critical) |->
                        [hospital_id |-> top_critical[i].hospital_id,
                         medicine_name |-> top_critical[i].medicine_name,
                         current_stock |-> top_critical[i].current_stock,
                         avg_daily_usage |->
                             IntOfRational(top_critical[i].avg_daily_usage)]]]
generate_alert_summary(reorder_rows) ==
    IF Len(reorder_rows) = 0 THEN [kind |-> "all_healthy"]
    ELSE LET critical == StatusRows(reorder_rows, "CRITICAL")
             top_critical == HeadRows(critical, 3)
         IN  [kind |-> "alert",
              critical_count |-> Len(critical),
              warning_count |-> Len(StatusRows(reorder_rows, "WARNING")),
              urgent |-> [i \in 1..Len(top_critical) |->
                             [hospital_id |-> top_critical[i].hospital_id,
                              medicine_name |-> top_critical[i].medicine_name,
                              current_stock |-> top_critical[i].current_stock,
                              avg_daily_usage |->
                                  IntOfRational(top_critical[i].avg_daily_usage)]]]

\* reorder_df[reorder_df['days_until_stockout'] <= 7] (app.py 1167): a
\* comparison with NaN is False
RECURSIVE WillRunOut(_)
WillRunOut(rows) ==
    IF rows = <<>> THEN <<>>
    ELSE LET d == Head(rows).days_until_stockout
         IN  (IF ~IsNull(d) /\ d.tenths <= 7 * 10 THEN <<Head(rows)>> ELSE <<>>)
                \o WillRunOut(Tail(rows))

\* the Next 7 Days Forecast (app.py 1165-1175): the days left of the first 3
Forecast(reorder_rows) ==
    LET first == HeadRows(WillRunOut(reorder_rows), 3)
    IN  [i \in 1..Len(first) |-> IntOfTenths(first[i].days_until_stockout)]

\* what the page shows of the two frames, or the error outcome when a
\* conversion of a nullable column raises; the charts and the leaderboard
\* (app.py 814-1115) are left out
MainContent(stock_rows, reorder_rows, med, hosp) ==
    LET filtered_stock_df == SelectRows(stock_rows, med, hosp)
    IN  IF CardsRaise(filtered_stock_df, med) THEN ErrorFetchingData
        ELSE [outcome |-> "rendered",
              total_items |-> Len(filtered_stock_df),
              cards |-> Cards(filtered_stock_df, med),
              alert |-> generate_alert_summary(reorder_rows),
              forecast |-> Forecast(reorder_rows)]

-----------------------------------------------------------------------------
(* The record sets the engine is run on *)

StockRecord(h, m, d, iss, cs, lt, ms) ==
    [hospital_id |-> h, medicine_name |-> m, date |-> d, issued |-> iss,
     closing_stock |-> cs, lead_time_days |-> lt, min_stock_level |-> ms]

Range(seq) == {seq[i] : i \in 1..Len(seq)}

\* (a) arbitrary tables of at most MaxRecords rows: several keys, rows in any
\*     date order, equal dates and equal rows included
TableDates == {1, 2}
TableProfiles ==
    {[closing_stock |-> 0, lead_time_days |-> 0, min_stock_level |-> 1],
     [closing_stock |-> MaxStock, lead_time_days |-> MaxLead, min_stock_level |-> 0]}
\* two medicines of one hospital on both dates, and a second hospital on one
TableKeyDates ==
    {<<HospitalIds[1], MedicineNames[1], d>> : d \in TableDates}
        \cup {<<HospitalIds[1], MedicineNames[2], d>> : d \in TableDates}
        \cup {<<HospitalIds[2], MedicineNames[1], 1>>}
TableRows ==
    {StockRecord(k[1], k[2], k[3], iss, p.closing_stock, p.lead_time_days,
                 p.min_stock_level) :
        k \in TableKeyDates, iss \in {0, MaxIssued}, p \in TableProfiles}

\* one sequence for every bag of rows: the rows in non-decreasing RowCode
RowCode(r) ==
    (((IndexOf(HospitalIds, r.hospital_id) * 3 + IndexOf(MedicineNames, r.medicine_name))
        * 3 + r.date) * (MaxIssued + 1) + r.issued) * (MaxStock + 1) + r.closing_stock

RECURSIVE TablesUpTo(_)
TablesUpTo(n) ==
    IF n = 0 THEN {<<>>}
    ELSE LET prev == TablesUpTo(n - 1)
         IN  prev \cup
             UNION {{Append(t, r) :
                        r \in {q \in TableRows : RowCode(t[n - 1]) <= RowCode(q)}} :
                    t \in {u \in prev : Len(u) = n - 1 /\ n > 1}}
                 \cup {<<r>> : r \in {q \in TableRows : n = 1}}

ArbitraryTables == TablesUpTo(MaxRecords)

\* (b) one key, one record a day for up to MaxSeriesLen days
LongSeries ==
    UNION {{[d \in 1..n |-> StockRecord(HospitalIds[1], MedicineNames[1], d, iss[d],
                                         MaxStock, MaxLead, 0)] :
              iss \in [1..n -> {0, MaxIssued}]} : n \in 1..MaxSeriesLen}

\* (c) one key, up to MaxShortLen days with issues on the last day only, every
\*     value of the stock fields
ShortSeries ==
    UNION {{[d \in 1..n |-> StockRecord(HospitalIds[1], MedicineNames[1], d,
                                         IF d = n THEN iss ELSE 0, cs, lt, ms)] :
              iss \in 0..MaxIssued, cs \in 0..MaxStock,
              lt \in 0..MaxLead, ms \in 0..MaxMin} : n \in 1..MaxShortLen}

\* (d) the single-record tables of the documented scenarios
ScenarioTables ==
    {<<StockRecord(HospitalIds[1], MedicineNames[1], 1, iss, cs, 5, ms)>> :
        iss \in {0, 10}, cs \in {5, 40, 100}, ms \in {0, 10}}

\* (e) single-record tables with negative fields: the CSV is written to
\*     STOCK_RECORDS as it is read (app.py 208-224)
NegativeTables ==
    {<<StockRecord(HospitalIds[1], MedicineNames[1], 1, iss, cs, lt, ms)>> :
        iss \in {-1, 0, 1}, cs \in {-1, 2}, lt \in {-1, 1}, ms \in {-1, 0}}

RecordSets ==
    ArbitraryTables \cup LongSeries \cup ShortSeries \cup ScenarioTables
        \cup NegativeTables

-----------------------------------------------------------------------------
(* Browser sessions (app.py 600-655, 1334-1355) *)

Sessions == 1..MaxSessions

\* st.session_state of a new session, with the position of its page run and
\* the locals of the run
NewSession ==
    [pc |-> "idle", conn_initialized |-> FALSE, connected |-> FALSE,
     conn |-> "none", data_loaded |-> FALSE,
     stock_df |-> NotFetched, reorder_df |-> NotFetched, page |-> NotRendered]

\* which page a run has ended on
PageOutcome(content) == [outcome |-> content.outcome]

\* the placeholders of the else branch (app.py 1334-1355)
ConnectionFailedPage == [outcome |-> "connection_failed"]
LoadingDataPage == [outcome |-> "loading"]

\* sample_data.csv: a file of the header only, and a file of two hospitals'
\* records, one CRITICAL and one of zero usage
SampleCsvs ==
    {<<>>,
     <<StockRecord(HospitalIds[1], MedicineNames[2], 1, MaxIssued, 0, MaxLead, 1),
       StockRecord(HospitalIds[2], MedicineNames[1], 1, 0, MaxStock, MaxLead, 0)>>}

\* CREATE TABLE IF NOT EXISTS STOCK_RECORDS (app.py 101-114): the rows after it
CreateOrReplaceTable(recs) == <<>>
CreateTableIfNotExists(recs) == recs

\* write_pandas(df, 'STOCK_RECORDS') (app.py 216-223): the rows after it
write_pandas(recs, df) == recs \o df

-----------------------------------------------------------------------------
(* SpecEngine: the derived tables and the read queries over a fixed record  *)
(* set.  The steps run in the program's order: load_sample_data_to_snowflake *)
(* creates CURRENT_STOCK_STATUS and then REORDER_RECOMMENDATIONS (app.py     *)
(* 137-201), the page then fetches the status list and then the reorder list *)
(* (app.py 654-655) and renders them.  A dynamic table is materialised again *)
(* only when its base table changes, and here the records do not change.     *)

InitEngine ==
    /\ records \in RecordSets
    /\ status_table = Absent
    /\ reorder_table = Absent
    /\ stock_df = NotFetched
    /\ reorder_df = NotFetched
    /\ page = NotRendered
    /\ stock_records_exists = TRUE
    /\ csv = <<>>
    /\ sessions = [s \in Sessions |-> NewSession]

\* CREATE OR REPLACE DYNAMIC TABLE CURRENT_STOCK_STATUS (app.py 137-171)
RefreshCurrentStockStatus ==
    /\ ~status_table.exists
    /\ \E rows \in CurrentStockStatusQuery(records) : status_table' = Table(rows)
    /\ UNCHANGED <<records, reorder_table, stock_df, reorder_df, page, appVars>>

\* CREATE OR REPLACE DYNAMIC TABLE REORDER_RECOMMENDATIONS (app.py 173-201)
RefreshReorderRecommendations ==
    /\ status_table.exists
    /\ ~reorder_table.exists
    /\ reorder_table' = Table(ReorderRecommendationsQuery(status_table.rows))
    /\ UNCHANGED <<records, status_table, stock_df, reorder_df, page, appVars>>

\* stock_df = get_current_stock_data(conn) (app.py 654)
get_current_stock_data ==
    /\ status_table.exists /\ reorder_table.exists
    /\ ~stock_df.fetched
    /\ stock_df' \in CurrentStockData(status_table.rows)
    /\ UNCHANGED <<records, status_table, reorder_table, reorder_df, page, appVars>>

\* reorder_df = get_reorder_recommendations(conn) (app.py 655)
get_reorder_recommendations ==
    /\ stock_df.fetched
    /\ ~reorder_df.fetched
    /\ reorder_df' \in ReorderRecommendations(reorder_table.rows)
    /\ UNCHANGED <<records, status_table, reorder_table, stock_df, page, appVars>>

\* the main content after the two fetches (app.py 657-1330), for the filter
\* values the user has selected
RenderMainContent ==
    /\ reorder_df.fetched
    /\ page = NotRendered
    /\ \E med \in MedicineChoices(stock_df.rows), hosp \in HospitalChoices(stock_df.rows) :
          page' = MainContent(stock_df.rows, reorder_df.rows, med, hosp)
    /\ UNCHANGED <<records, status_table, reorder_table, stock_df, reorder_df, appVars>>

NextEngine ==
    \/ RefreshCurrentStockStatus
    \/ RefreshReorderRecommendations
    \/ get_current_stock_data
    \/ get_reorder_recommendations
    \/ RenderMainContent

SpecEngine == InitEngine /\ [][NextEngine]_vars

-----------------------------------------------------------------------------
(* Spec: the sessions of the application on one warehouse.  Every session   *)
(* runs the page script top to bottom; the statements it sends to the        *)
(* warehouse are steps of their own, so the statements of two sessions and   *)
(* the refreshes of the dynamic tables interleave.  DROP VIEW IF EXISTS      *)
(* (app.py 127-134) changes nothing, the two names being dynamic tables, and *)
(* is left out.                                                              *)

Init ==
    /\ records = <<>>
    /\ stock_records_exists \in BOOLEAN
    /\ status_table = Absent
    /\ reorder_table = Absent
    /\ csv \in SampleCsvs
    /\ sessions = [s \in Sessions |-> NewSession]
    /\ stock_df = NotFetched
    /\ reorder_df = NotFetched
    /\ page = NotRendered

Warehouse == <<records, stock_records_exists, status_table, reorder_table>>

\* the statements of load_sample_data_to_snowflake that can raise
LoadRaisingPcsWithDrops ==
    {"load_create_table", "load_drop_reorder", "load_drop_status",
     "load_create_status", "load_create_reorder", "load_write"}
LoadRaisingPcs ==
    {"load_create_table", "load_create_status", "load_create_reorder", "load_write"}

\* the first page run of a session: get_snowflake_connection (app.py 602-616)
ConnectEveryRun(s) ==
    /\ sessions[s].pc = "idle"
    /\ \E ok \in BOOLEAN :
          sessions' = [sessions EXCEPT ![s].conn_initialized = TRUE,
                                       ![s].connected = ok,
                                       ![s].conn = IF ok THEN "open" ELSE "none",
                                       ![s].pc = "autoload"]
    /\ UNCHANGED <<Warehouse, csv, engineVars>>
Connect(s) ==
    /\ sessions[s].pc = "idle"
    /\ ~sessions[s].conn_initialized
    /\ \E ok \in BOOLEAN :
          sessions' = [sessions EXCEPT ![s].conn_initialized = TRUE,
                                       ![s].connected = ok,
                                       ![s].conn = IF ok THEN "open" ELSE "none",
                                       ![s].pc = "autoload"]
    /\ UNCHANGED <<Warehouse, csv, engineVars>>

\* a later page run of the session: the script starts again
Rerun(s) ==
    /\ sessions[s].pc = "idle"
    /\ sessions[s].conn_initialized
    /\ sessions' = [sessions EXCEPT ![s].pc = "autoload", ![s].page = NotRendered]
    /\ UNCHANGED <<Warehouse, csv, engineVars>>

\* SELECT COUNT(*) FROM STOCK_RECORDS (app.py 619-643): an absent table raises
\* and a count of 0 falls through, both into the load; any other count sets
\* data_loaded and reruns
AutoLoadCheckNoCount(s) ==
    /\ sessions[s].pc = "autoload"
    /\ sessions[s].connected /\ ~sessions[s].data_loaded
    /\ sessions' = [sessions EXCEPT ![s].data_loaded = TRUE]
    /\ UNCHANGED <<Warehouse, csv, engineVars>>
AutoLoadCheck(s) ==
    /\ sessions[s].pc = "autoload"
    /\ sessions[s].connected /\ ~sessions[s].data_loaded
    /\ sessions' =
          IF ~stock_records_exists \/ Len(records) = 0
          THEN [sessions EXCEPT ![s].pc = "load_create_table"]
          ELSE [sessions EXCEPT ![s].data_loaded = TRUE]
    /\ UNCHANGED <<Warehouse, csv, engineVars>>

\* CREATE TABLE IF NOT EXISTS STOCK_RECORDS (app.py 101-114)
LoadCreateTable(s) ==
    /\ sessions[s].pc = "load_create_table"
    /\ stock_records_exists' = TRUE
    /\ records' = CreateTableIfNotExists(records)
    /\ sessions' = [sessions EXCEPT ![s].pc = "load_drop_reorder"]
    /\ UNCHANGED <<status_table, reorder_table, csv, engineVars>>

\* DROP DYNAMIC TABLE IF EXISTS REORDER_RECOMMENDATIONS, errors passed over
\* (app.py 119-122)
LoadDropReorder(s) ==
    /\ sessions[s].pc = "load_drop_reorder"
    /\ reorder_table' \in {Absent, reorder_table}
    /\ sessions' = [sessions EXCEPT ![s].pc = "load_drop_status"]
    /\ UNCHANGED <<records, stock_records_exists, status_table, csv, engineVars>>

\* DROP DYNAMIC TABLE IF EXISTS CURRENT_STOCK_STATUS, errors passed over
\* (app.py 123-126)
LoadDropStatus(s) ==
    /\ sessions[s].pc = "load_drop_status"
    /\ status_table' \in {Absent, status_table}
    /\ sessions' = [sessions EXCEPT ![s].pc = "load_create_status"]
    /\ UNCHANGED <<records, stock_records_exists, reorder_table, csv, engineVars>>

\* CREATE OR REPLACE DYNAMIC TABLE CURRENT_STOCK_STATUS (app.py 137-171): the
\* table is filled from STOCK_RECORDS as it is then
LoadCreateStatus(s) ==
    /\ sessions[s].pc = "load_create_status"
    /\ stock_records_exists
    /\ \E rows \in CurrentStockStatusQuery(records) : status_table' = Table(rows)
    /\ sessions' = [sessions EXCEPT ![s].pc = "load_create_reorder"]
    /\ UNCHANGED <<records, stock_records_exists, reorder_table, csv, engineVars>>

\* CREATE OR REPLACE DYNAMIC TABLE REORDER_RECOMMENDATIONS (app.py 173-201)
LoadCreateReorder(s) ==
    /\ sessions[s].pc = "load_create_reorder"
    /\ status_table.exists
    /\ reorder_table' = Table(ReorderRecommendationsQuery(status_table.rows))
    /\ sessions' = [sessions EXCEPT ![s].pc = "load_write"]
    /\ UNCHANGED <<records, stock_records_exists, status_table, csv, engineVars>>

\* pd.read_csv and write_pandas report success (app.py 207-231): the load
\* returns True, the caller sets data_loaded and reruns (app.py 632-634)
LoadWritePandas(s) ==
    /\ sessions[s].pc = "load_write"
    /\ stock_records_exists
    /\ records' = write_pandas(records, csv)
    /\ sessions' = [sessions EXCEPT ![s].data_loaded = TRUE, ![s].pc = "autoload"]
    /\ UNCHANGED <<stock_records_exists, status_table, reorder_table, csv, engineVars>>

\* a statement of the load raises, or write_pandas reports no success: the
\* load returns False (app.py 229-236) and the run ends on the Loading Data
\* placeholder (app.py 1346-1355)
LoadFailsMarksLoaded(s) ==
    /\ sessions[s].pc \in LoadRaisingPcs
    /\ sessions' = [sessions EXCEPT ![s].pc = "idle", ![s].page = LoadingDataPage,
                                    ![s].data_loaded = TRUE]
    /\ UNCHANGED <<Warehouse, csv, engineVars>>
LoadFails(s) ==
    /\ sessions[s].pc \in LoadRaisingPcs
    /\ sessions' = [sessions EXCEPT ![s].pc = "idle", ![s].page = LoadingDataPage]
    /\ UNCHANGED <<Warehouse, csv, engineVars>>

\* the else branch of a session that is not connected (app.py 1334-1345)
ConnectionFailed(s) ==
    /\ sessions[s].pc = "autoload"
    /\ ~sessions[s].connected
    /\ sessions' = [sessions EXCEPT ![s].pc = "idle", ![s].page = ConnectionFailedPage]
    /\ UNCHANGED <<Warehouse, csv, engineVars>>

\* stock_df = get_current_stock_data(conn) (app.py 646-654); a query of an
\* absent table raises into the except clause (app.py 1331-1332)
FetchStock(s) ==
    /\ sessions[s].pc = "autoload"
    /\ sessions[s].connected /\ sessions[s].data_loaded
    /\ IF status_table.exists
       THEN \E df \in CurrentStockData(status_table.rows) :
               sessions' = [sessions EXCEPT ![s].stock_df = df, ![s].pc = "fetch_reorder"]
       ELSE sessions' = [sessions EXCEPT ![s].page = ErrorFetchingData, ![s].pc = "idle"]
    /\ UNCHANGED <<Warehouse, csv, engineVars>>

\* reorder_df = get_reorder_recommendations(conn) (app.py 655)
FetchReorder(s) ==
    /\ sessions[s].pc = "fetch_reorder"
    /\ IF reorder_table.exists
       THEN \E df \in ReorderRecommendations(reorder_table.rows) :
               sessions' = [sessions EXCEPT ![s].reorder_df = df, ![s].pc = "render"]
       ELSE sessions' = [sessions EXCEPT ![s].page = ErrorFetchingData, ![s].pc = "idle"]
    /\ UNCHANGED <<Warehouse, csv, engineVars>>

\* the rest of the main content (app.py 657-1332), which ends the run and
\* with it the two frames; the session keeps the outcome of the page
Render(s) ==
    /\ sessions[s].pc = "render"
    /\ \E outcome \in {PageOutcome(MainContent(sessions[s].stock_df.rows,
                                                 sessions[s].reorder_df.rows, med, hosp)) :
                            med \in MedicineChoices(sessions[s].stock_df.rows),
                            hosp \in HospitalChoices(sessions[s].stock_df.rows)} :
          sessions' = [sessions EXCEPT
                          ![s].page = outcome,
                          ![s].stock_df = NotFetched,
                          ![s].reorder_df = NotFetched,
                          ![s].pc = "idle"]
    /\ UNCHANGED <<Warehouse, csv, engineVars>>

\* the refresh of CURRENT_STOCK_STATUS within its TARGET_LAG (app.py 137-141),
\* when STOCK_RECORDS has changed under it
TargetLagRefreshStatus ==
    /\ status_table.exists
    /\ stock_records_exists
    /\ status_table.rows \notin CurrentStockStatusQuery(records)
    /\ \E rows \in CurrentStockStatusQuery(records) : status_table' = Table(rows)
    /\ UNCHANGED <<records, stock_records_exists, reorder_table, appVars, engineVars>>

\* the refresh of REORDER_RECOMMENDATIONS within its TARGET_LAG (app.py
\* 173-177), when CURRENT_STOCK_STATUS has changed under it
TargetLagRefreshReorder ==
    /\ reorder_table.exists
    /\ status_table.exists
    /\ reorder_table.rows # ReorderRecommendationsQuery(status_table.rows)
    /\ reorder_table' = Table(ReorderRecommendationsQuery(status_table.rows))
    /\ UNCHANGED <<records, stock_records_exists, status_table, appVars, engineVars>>

Next ==
    \/ \E s \in Sessions : Connect(s)
    \/ \E s \in Sessions : Rerun(s)
    \/ \E s \in Sessions : AutoLoadCheck(s)
    \/ \E s \in Sessions : LoadCreateTable(s)
    \/ \E s \in Sessions : LoadDropReorder(s)
    \/ \E s \in Sessions : LoadDropStatus(s)
    \/ \E s \in Sessions : LoadCreateStatus(s)
    \/ \E s \in Sessions : LoadCreateReorder(s)
    \/ \E s \in Sessions : LoadWritePandas(s)
    \/ \E s \in Sessions : LoadFails(s)
    \/ \E s \in Sessions : ConnectionFailed(s)
    \/ \E s \in Sessions : FetchStock(s)
    \/ \E s \in Sessions : FetchReorder(s)
    \/ \E s \in Sessions : Render(s)
    \/ TargetLagRefreshStatus
    \/ TargetLagRefreshReorder

Spec == Init /\ [][Next]_vars

-----------------------------------------------------------------------------
(* Properties *)

Statuses == {"CRITICAL", "WARNING", "HEALTHY"}
Severity(st) == IF st = "CRITICAL" THEN 2 ELSE IF st = "WARNING" THEN 1 ELSE 0
Abs(n) == IF n >= 0 THEN n ELSE 0 - n

\* avg_daily_usage of a status row equals the integer u
UsageIs(s, u) == s.avg_daily_usage.num = u * s.avg_daily_usage.den

\* q = max(0, round(n / d)) for d > 0, whichever way a half is rounded:
\* a positive q is an integer nearest to n / d, and q = 0 needs n / d <= 1/2
IsFlooredRound(q, n, d) ==
    /\ q >= 0
    /\ q > 0 => 2 * Abs(q * d - n) <= d
    /\ q = 0 => 2 * n <= d

\* C1: every status row carries exactly one of CRITICAL, WARNING, HEALTHY, and
\* it is CRITICAL whenever current_stock <= min_stock_level, whatever the
\* usage (0 included) and the lead time
Claim_C1 ==
    status_table.exists =>
        \A s \in status_table.rows :
            /\ s.stock_status \in Statuses
            /\ s.current_stock <= s.min_stock_level => s.stock_status = "CRITICAL"

\* stock 5 under a minimum of 10 with a usage of 10 a day: CRITICAL
Witness_C1 ==
    /\ status_table.exists
    /\ \E s \in status_table.rows :
          /\ s.current_stock = 5 /\ s.min_stock_level = 10 /\ UsageIs(s, 10)
          /\ s.stock_status = "CRITICAL"

\* C2: with current_stock > min_stock_level and avg_daily_usage > 0 the status
\* is WARNING when current_stock / avg_daily_usage <= lead_time_days and
\* HEALTHY otherwise; stock 100, usage 10, lead 5 is HEALTHY and stock 40,
\* usage 10, lead 5 is WARNING
Claim_C2 ==
    status_table.exists =>
        \A s \in status_table.rows :
            (s.current_stock > s.min_stock_level /\ s.avg_daily_usage.num > 0) =>
                /\ s.stock_status =
                      (IF s.current_stock * s.avg_daily_usage.den
                            <= s.lead_time_days * s.avg_daily_usage.num
                       THEN "WARNING" ELSE "HEALTHY")
                /\ (s.current_stock = 100 /\ UsageIs(s, 10) /\ s.lead_time_days = 5)
                      => s.stock_status = "HEALTHY"
                /\ (s.current_stock = 40 /\ UsageIs(s, 10) /\ s.lead_time_days = 5)
                      => s.stock_status = "WARNING"

\* a row whose stock lasts exactly the lead time, above the minimum: WARNING
Witness_C2 ==
    /\ status_table.exists
    /\ \E s \in status_table.rows :
          /\ s.current_stock > s.min_stock_level /\ s.avg_daily_usage.num > 0
          /\ s.current_stock * s.avg_daily_usage.den
                = s.lead_time_days * s.avg_daily_usage.num
          /\ s.stock_status = "WARNING"

\* C3: a row whose avg_daily_usage is 0 is HEALTHY whenever current_stock >
\* min_stock_level, for every lead time, and is never WARNING
Claim_C3 ==
    status_table.exists =>
        \A s \in status_table.rows :
            s.avg_daily_usage.num = 0 =>
                /\ s.stock_status # "WARNING"
                /\ s.current_stock > s.min_stock_level => s.stock_status = "HEALTHY"

\* a zero-usage series of several days, above its minimum, with a lead time
Witness_C3 ==
    /\ status_table.exists
    /\ \E s \in status_table.rows :
          /\ s.avg_daily_usage.num = 0 /\ s.avg_daily_usage.den > 1
          /\ s.current_stock > s.min_stock_level /\ s.lead_time_days > 0
          /\ s.stock_status = "HEALTHY"

Claim_C5 ==
    reorder_table.exists =>
        \A r \in reorder_table.rows : r.recommended_order_quantity >= 0

\* a CRITICAL row whose stock exceeds usage * (lead + 30): the floor applies
Witness_C5 ==
    /\ reorder_table.exists
    /\ \E r \in reorder_table.rows :
          /\ r.stock_status = "CRITICAL"
          /\ r.avg_daily_usage.num * (r.lead_time_days + 30)
                < (r.current_stock - 1) * r.avg_daily_usage.den
          /\ r.recommended_order_quantity = 0

\* C6: a CRITICAL row has recommended_order_quantity =
\* max(0, round(avg_daily_usage * (lead_time_days + 30) - current_stock)) and
\* priority 1
Claim_C6 ==
    reorder_table.exists =>
        \A r \in reorder_table.rows :
            r.stock_status = "CRITICAL" =>
                /\ IsFlooredRound(r.recommended_order_quantity,
                                  r.avg_daily_usage.num * (r.lead_time_days + 30)
                                      - r.current_stock * r.avg_daily_usage.den,
                                  r.avg_daily_usage.den)
                /\ r.priority = 1

\* a CRITICAL row with a fractional usage, a lead time and a positive quantity
Witness_C6 ==
    /\ reorder_table.exists
    /\ \E r \in reorder_table.rows :
          /\ r.stock_status = "CRITICAL" /\ r.lead_time_days > 0
          /\ r.avg_daily_usage.den = 3 /\ r.avg_daily_usage.num = 1
          /\ r.current_stock > 0
          /\ r.recommended_order_quantity > 0 /\ r.priority = 1

\* C7: a WARNING row has recommended_order_quantity =
\* max(0, round(avg_daily_usage * (lead_time_days + 15) - current_stock)) and
\* priority 2; stock 40, usage 10, lead 5 gives 160
Claim_C7 ==
    reorder_table.exists =>
        \A r \in reorder_table.rows :
            r.stock_status = "WARNING" =>
                /\ IsFlooredRound(r.recommended_order_quantity,
                                  r.avg_daily_usage.num * (r.lead_time_days + 15)
                                      - r.current_stock * r.avg_daily_usage.den,
                                  r.avg_daily_usage.den)
                /\ r.priority = 2
                /\ (r.current_stock = 40 /\ UsageIs(r, 10) /\ r.lead_time_days = 5)
                      => r.recommended_order_quantity = 160

\* the documented scenario: stock 40, usage 10, lead 5, WARNING, quantity 160
Witness_C7 ==
    /\ reorder_table.exists
    /\ \E r \in reorder_table.rows :
          /\ r.current_stock = 40 /\ UsageIs(r, 10) /\ r.lead_time_days = 5
          /\ r.stock_status = "WARNING" /\ r.priority = 2
          /\ r.recommended_order_quantity = 160

\* C8: the fetched reorder list holds no HEALTHY entry (no key that is HEALTHY
\* in the status table has a recommendation) and every recommendation has
\* priority 1 or 2
Claim_C8 ==
    reorder_df.fetched =>
        /\ \A i \in 1..Len(reorder_df.rows) :
              /\ reorder_df.rows[i].stock_status # "HEALTHY"
              /\ reorder_df.rows[i].priority \in {1, 2}
        /\ \A s \in status_table.rows :
              s.stock_status = "HEALTHY" =>
                  ~ \E i \in 1..Len(reorder_df.rows) :
                        /\ reorder_df.rows[i].hospital_id = s.hospital_id
                        /\ reorder_df.rows[i].medicine_name = s.medicine_name

\* a fetch over a status table with a HEALTHY and a non-HEALTHY key
Witness_C8 ==
    /\ reorder_df.fetched
    /\ Len(reorder_df.rows) = 1
    /\ \E s \in status_table.rows : s.stock_status = "HEALTHY"

\* issued summed over the first n records of a date-ordered series
RECURSIVE PrefixIssued(_, _, _)
PrefixIssued(recs, order, n) ==
    IF n <= 0 THEN 0 ELSE recs[order[n]].issued + PrefixIssued(recs, order, n - 1)

\* the mean of issued over the records max(1, pos - 6)..pos of the series
TrailingMean(recs, order, pos) ==
    [num |-> PrefixIssued(recs, order, pos) - PrefixIssued(recs, order, pos - 7),
     den |-> IF pos < 7 THEN pos ELSE 7]

MaxDateOf(recs, P) == CHOOSE d \in {recs[i].date : i \in P} : \A j \in P : recs[j].date <= d

\* C9: in a date-ordered series avg_daily_usage at a record is the mean of
\* issued over that record and at most the 6 records before it, never an older
\* one; with fewer than 7 records the window is the records available, so a
\* single record gives its own issued; the status row of the series carries
\* the value at its last record
Claim_C9 ==
    \A k \in PartitionKeys(records) :
        LET P == PartitionRows(records, k[1], k[2])
        IN  /\ \A order \in DateAscOrders(records, P) :
                  \A pos \in 1..Len(order) :
                      /\ AvgIssued(records, order, pos) = TrailingMean(records, order, pos)
                      /\ pos = 1 => AvgIssued(records, order, pos)
                                      = [num |-> records[order[1]].issued, den |-> 1]
            /\ status_table.exists =>
                  \E s \in status_table.rows :
                      /\ s.hospital_id = k[1] /\ s.medicine_name = k[2]
                      /\ \E order \in DateAscOrders(records, P) :
                            \E pos \in 1..Len(order) :
                                /\ records[order[pos]].date = MaxDateOf(records, P)
                                /\ s.avg_daily_usage = TrailingMean(records, order, pos)

\* a series of more than 7 days whose first day alone has issues: the status
\* row's usage is 0
Witness_C9 ==
    /\ status_table.exists
    /\ Len(records) > 7
    /\ records[1].date = 1 /\ records[1].issued > 0
    /\ \E s \in status_table.rows : s.avg_daily_usage = [num |-> 0, den |-> 7]

\* C10: CURRENT_STOCK_STATUS holds exactly one row for every key present in
\* the records; its current_stock, min_stock_level and lead_time_days are those
\* of a record of the key with the maximum date, and its avg_daily_usage is the
\* trailing window ending at that record
Claim_C10 ==
    status_table.exists =>
        /\ {<<s.hospital_id, s.medicine_name>> : s \in status_table.rows}
              = PartitionKeys(records)
        /\ Cardinality(status_table.rows) = Cardinality(PartitionKeys(records))
        /\ \A s \in status_table.rows :
              LET P == PartitionRows(records, s.hospital_id, s.medicine_name)
              IN  \E i \in P :
                      /\ records[i].date = MaxDateOf(records, P)
                      /\ s.date = records[i].date
                      /\ s.current_stock = records[i].closing_stock
                      /\ s.min_stock_level = records[i].min_stock_level
                      /\ s.lead_time_days = records[i].lead_time_days
                      /\ \E order \in DateAscOrders(records, P) :
                            s.avg_daily_usage
                                = TrailingMean(records, order, IndexOf(order, i))

\* two keys, one of them with an older record that differs from its latest
Witness_C10 ==
    /\ status_table.exists
    /\ Cardinality(status_table.rows) = 2
    /\ \E s \in status_table.rows :
          \E i, j \in PartitionRows(records, s.hospital_id, s.medicine_name) :
              /\ records[i].date < records[j].date
              /\ records[i].closing_stock # records[j].closing_stock
              /\ records[i].issued # records[j].issued
              /\ s.current_stock = records[j].closing_stock

-----------------------------------------------------------------------------
(* Input invariants, errors and independence *)

\* two records of one series with the same date
HasDuplicateDates(recs, P) == \E i, j \in P : i # j /\ recs[i].date = recs[j].date

NoDuplicateDates(recs) ==
    \A k \in PartitionKeys(recs) :
        ~HasDuplicateDates(recs, PartitionRows(recs, k[1], k[2]))

RowsOfKey(rows, k) == {s \in rows : s.hospital_id = k[1] /\ s.medicine_name = k[2]}

\* C11: a series with two records of the same date is rejected: no status row
\* is derived for its key by picking one of the duplicates as the latest
Claim_C11 ==
    status_table.exists =>
        \A k \in PartitionKeys(records) :
            HasDuplicateDates(records, PartitionRows(records, k[1], k[2]))
                => RowsOfKey(status_table.rows, k) = {}

\* C12: on a record set without duplicate dates the status query has one
\* result and the status list one order, so computing them again on the
\* unchanged records gives the table and the frame already held (compared
\* where each has just been computed: neither changes after that)
Claim_C12 ==
    NoDuplicateDates(records) =>
        /\ (status_table.exists /\ ~reorder_table.exists)
              => CurrentStockStatusQuery(records) = {status_table.rows}
        /\ (stock_df.fetched /\ ~reorder_df.fetched)
              => CurrentStockData(status_table.rows) = {stock_df}

\* a fetched list of two series, one of them with two dated records that
\* differ in their stock and their issues
Witness_C12 ==
    /\ NoDuplicateDates(records)
    /\ stock_df.fetched /\ ~reorder_df.fetched
    /\ Len(stock_df.rows) = 2
    /\ \E i, j \in 1..Len(records) :
          /\ records[i].hospital_id = records[j].hospital_id
          /\ records[i].medicine_name = records[j].medicine_name
          /\ records[i].date < records[j].date
          /\ records[i].closing_stock # records[j].closing_stock
          /\ records[i].issued # records[j].issued

\* C13 as stated: days_until_stockout is exactly current_stock /
\* avg_daily_usage when the usage is positive
Claim_C13_Exact ==
    status_table.exists =>
        \A s \in status_table.rows :
            s.avg_daily_usage.num > 0 =>
                /\ ~IsNull(s.days_until_stockout)
                /\ s.days_until_stockout.tenths * s.avg_daily_usage.num
                      = 10 * s.current_stock * s.avg_daily_usage.den

\* t tenths is x / n rounded to one decimal place, a half away from zero (n > 0)
IsRoundedToTenths(t, x, n) ==
    /\ t * x >= 0
    /\ 2 * n * Abs(t) <= 20 * Abs(x) + n
    /\ 20 * Abs(x) + n < 2 * n * Abs(t) + 2 * n

\* C13: days_until_stockout is current_stock / avg_daily_usage rounded to one
\* decimal place when the usage is positive and NULL when the usage is 0; every
\* series, one of zero usage or of a single record included, gets its row
Claim_C13 ==
    status_table.exists =>
        /\ \A s \in status_table.rows :
              /\ s.avg_daily_usage.num > 0 =>
                    /\ ~IsNull(s.days_until_stockout)
                    /\ IsRoundedToTenths(s.days_until_stockout.tenths,
                                         s.current_stock * s.avg_daily_usage.den,
                                         s.avg_daily_usage.num)
              /\ s.avg_daily_usage.num = 0 => s.days_until_stockout = SqlNull
        /\ \A k \in PartitionKeys(records) : RowsOfKey(status_table.rows, k) # {}

\* a quotient that one decimal place does not hold, beside states with a
\* zero-usage series and a single-record series
Witness_C13 ==
    /\ status_table.exists
    /\ \E s \in status_table.rows :
          /\ s.avg_daily_usage.num > 0
          /\ s.days_until_stockout.tenths * s.avg_daily_usage.num
                # 10 * s.current_stock * s.avg_daily_usage.den

\* the last 7 records of a series in date order, as a table of their own
LastRecords(recs, asc) ==
    LET n == Len(asc)
        first == IF n > 7 THEN n - 6 ELSE 1
    IN  [j \in 1..(n - first + 1) |-> recs[asc[first + j - 1]]]

\* the same history with other stock fields in every record but the latest
OtherEarlierFields(hist) ==
    [j \in 1..Len(hist) |->
        IF j = Len(hist) THEN hist[j]
        ELSE [hist[j] EXCEPT !.closing_stock = @ + 1, !.lead_time_days = @ + 1,
                             !.min_stock_level = @ + 1]]

\* C18: the status row of a series, and with it its recommendation, is a
\* function of its latest record and the issued values of its last 7 records:
\* the history cut to its last 7 records, and that history with other stock
\* fields in the earlier records, give the row the table holds (compared
\* where CURRENT_STOCK_STATUS has just been materialised)
Claim_C18 ==
    (status_table.exists /\ ~reorder_table.exists /\ NoDuplicateDates(records)) =>
        \A k \in PartitionKeys(records) :
            LET P == PartitionRows(records, k[1], k[2])
                asc == CHOOSE o \in DateAscOrders(records, P) : TRUE
                last == LastRecords(records, asc)
                other == OtherEarlierFields(last)
            IN  /\ PartitionResults(last, 1..Len(last)) = RowsOfKey(status_table.rows, k)
                /\ PartitionResults(other, 1..Len(other)) = RowsOfKey(status_table.rows, k)
                /\ {ReorderRow(s) : s \in PartitionResults(other, 1..Len(other))}
                      = {ReorderRow(s) : s \in RowsOfKey(status_table.rows, k)}

\* a series of more than 7 records whose oldest record has issues
Witness_C18 ==
    /\ status_table.exists /\ ~reorder_table.exists
    /\ NoDuplicateDates(records)
    /\ Len(records) > 7
    /\ records[1].issued > 0
    /\ \E s \in status_table.rows : s.avg_daily_usage.den = 7

\* the key of a record
KeyOf(r) == <<r.hospital_id, r.medicine_name>>

\* the records appended: a later record of every key
AppendedRows ==
    {StockRecord(h, m, 3, MaxIssued, MaxStock, MaxLead, 0) :
        h \in Range(HospitalIds), m \in Range(MedicineNames)}

\* C19: appending a record of one key leaves the status row of every other
\* key, and with it the recommendation made from that row, as they are
\* (compared where CURRENT_STOCK_STATUS has just been materialised: neither
\* the records nor the table change after that)
Claim_C19 ==
    (status_table.exists /\ ~reorder_table.exists) =>
        \A k \in PartitionKeys(records) :
            LET before == PartitionResults(records, PartitionRows(records, k[1], k[2]))
            IN  /\ RowsOfKey(status_table.rows, k) \subseteq before
                /\ \A r \in AppendedRows :
                      KeyOf(r) # k =>
                          LET appended == Append(records, r)
                          IN  PartitionResults(appended,
                                               PartitionRows(appended, k[1], k[2]))
                                 = before

\* a table of two keys, where a record appended to one key changes that key's row
Witness_C19 ==
    /\ status_table.exists
    /\ ~reorder_table.exists
    /\ Cardinality(PartitionKeys(records)) = 2
    /\ \E r \in AppendedRows :
          LET appended == Append(records, r)
          IN  /\ KeyOf(r) \in PartitionKeys(records)
              /\ PartitionResults(appended, PartitionRows(appended, r.hospital_id,
                                                          r.medicine_name))
                    # PartitionResults(records, PartitionRows(records, r.hospital_id,
                                                            r.medicine_name))

\* a record with a negative stock field
HasNegativeField(r) ==
    r.issued < 0 \/ r.closing_stock < 0 \/ r.lead_time_days < 0 \/ r.min_stock_level < 0

\* C14: rendering the dashboard for a status list that holds a zero-usage
\* entry, whatever the filters selected, does not reach the error outcome
Claim_C14 ==
    (/\ page # NotRendered
     /\ \E i \in 1..Len(stock_df.rows) : stock_df.rows[i].avg_daily_usage.num = 0)
        => page.outcome = "rendered"

\* C15: over an empty STOCK_RECORDS both derived tables and both lists are
\* empty, and the alert summary made of the empty list is the all-healthy
\* message
Claim_C15 ==
    records = <<>> =>
        /\ status_table.exists => status_table.rows = {}
        /\ reorder_table.exists => reorder_table.rows = {}
        /\ stock_df.fetched => stock_df.rows = <<>>
        /\ reorder_df.fetched => reorder_df.rows = <<>>
        /\ page.outcome = "rendered" =>
              /\ page.alert = [kind |-> "all_healthy"]
              /\ page.forecast = <<>>
              /\ page.total_items = 0

\* the page rendered from the two empty lists
Witness_C15 ==
    /\ records = <<>>
    /\ reorder_df = DataFrame(<<>>)
    /\ page.outcome = "rendered"

\* C16: no status row and no recommendation is derived from a record with a
\* negative stock field
Claim_C16 ==
    \A i \in 1..Len(records) :
        HasNegativeField(records[i]) =>
            /\ status_table.exists => RowsOfKey(status_table.rows, KeyOf(records[i])) = {}
            /\ reorder_table.exists => RowsOfKey(reorder_table.rows, KeyOf(records[i])) = {}

-----------------------------------------------------------------------------
(* The warehouse under the sessions *)

\* the lists the two read queries give over the full contents recs
FreshStockData(recs) ==
    UNION {CurrentStockData(rows) : rows \in CurrentStockStatusQuery(recs)}
FreshReorderRecommendations(recs) ==
    UNION {ReorderRecommendations(ReorderRecommendationsQuery(rows)) :
              rows \in CurrentStockStatusQuery(recs)}

\* C17: whenever a page run reads the status list or the recommendation list,
\* the list read equals the classification and the reorder computation applied
\* to the full contents STOCK_RECORDS has at the read
Claim_C17 ==
    [][\A s \in Sessions :
          /\ (~sessions[s].stock_df.fetched /\ sessions'[s].stock_df.fetched)
                => sessions'[s].stock_df \in FreshStockData(records)
          /\ (~sessions[s].reorder_df.fetched /\ sessions'[s].reorder_df.fetched)
                => sessions'[s].reorder_df \in FreshReorderRecommendations(records)]_vars

\* recs is an initial part of later
IsPrefix(recs, later) ==
    /\ Len(recs) <= Len(later)
    /\ \A i \in 1..Len(recs) : later[i] = recs[i]

\* C20: no step of any session and no refresh deletes or changes a record of
\* STOCK_RECORDS or drops the table: the records of a state are an initial
\* part of the records of the next
Claim_C20 ==
    [][/\ IsPrefix(records, records')
       /\ stock_records_exists => stock_records_exists']_vars

\* a second load has run its CREATE TABLE IF NOT EXISTS, its drops and its
\* re-creation of the derived tables over the records of the first, and has
\* appended to them
Witness_C20 ==
    /\ Len(csv) > 0
    /\ Len(records) > Len(csv)
    /\ status_table.exists
    /\ IsPrefix(csv, records)

-----------------------------------------------------------------------------
(* The sessions *)

\* the positions of a page run inside load_sample_data_to_snowflake
LoadPcs ==
    {"load_create_table", "load_drop_reorder", "load_drop_status",
     "load_create_status", "load_create_reorder", "load_write"}

\* two records of one key and one date
HasDuplicateRecords(recs) ==
    \E i, j \in 1..Len(recs) :
        /\ i # j
        /\ KeyOf(recs[i]) = KeyOf(recs[j])
        /\ recs[i].date = recs[j].date

\* C21: whatever the sessions do, STOCK_RECORDS never holds two records of the
\* same hospital_id, medicine_name and date: the sample file, which has no
\* such pair, is never written twice
Claim_C21 == ~HasDuplicateRecords(csv) => ~HasDuplicateRecords(records)

\* C22: at no step of a load does REORDER_RECOMMENDATIONS exist while
\* CURRENT_STOCK_STATUS, which it reads from, does not
Claim_C22 ==
    (\E s \in Sessions : sessions[s].pc \in LoadPcs)
        => (reorder_table.exists => status_table.exists)

\* the reorder list holds exactly the CRITICAL and WARNING keys of the status
\* list, with the same stock_status, current_stock and avg_daily_usage
ConsistentLists(stock_rows, reorder_rows) ==
    /\ \A i \in 1..Len(reorder_rows) :
          \E j \in 1..Len(stock_rows) :
              /\ KeyOf(stock_rows[j]) = KeyOf(reorder_rows[i])
              /\ stock_rows[j].stock_status = reorder_rows[i].stock_status
              /\ stock_rows[j].current_stock = reorder_rows[i].current_stock
              /\ stock_rows[j].avg_daily_usage = reorder_rows[i].avg_daily_usage
    /\ \A j \in 1..Len(stock_rows) :
          stock_rows[j].stock_status \in {"CRITICAL", "WARNING"}
              => \E i \in 1..Len(reorder_rows) :
                    KeyOf(reorder_rows[i]) = KeyOf(stock_rows[j])

\* C23: in every page run the reorder list fetched is consistent with the
\* status list fetched before it
Claim_C23 ==
    \A s \in Sessions :
        sessions[s].pc = "render"
            => ConsistentLists(sessions[s].stock_df.rows, sessions[s].reorder_df.rows)

\* C28: whenever a session is about to query CURRENT_STOCK_STATUS or
\* REORDER_RECOMMENDATIONS in the main content, the table exists
Claim_C28 ==
    \A s \in Sessions :
        /\ (sessions[s].pc = "autoload" /\ sessions[s].connected /\ sessions[s].data_loaded)
              => status_table.exists
        /\ sessions[s].pc = "fetch_reorder" => reorder_table.exists

\* C24: a session connects once, on its first page run: until then it is a
\* new session, afterwards conn_initialized stays true and connected and conn
\* never change; connected holds exactly when a connection is stored; a session
\* whose attempt failed loads nothing and every run of it ends on the
\* Connection Failed page
Claim_C24 ==
    /\ [](\A s \in Sessions :
            /\ sessions[s].connected <=> sessions[s].conn = "open"
            /\ ~sessions[s].conn_initialized => sessions[s] = NewSession
            /\ (sessions[s].conn_initialized /\ ~sessions[s].connected) =>
                  /\ ~sessions[s].data_loaded
                  /\ sessions[s].pc \in {"idle", "autoload"}
                  /\ sessions[s].pc = "idle" => sessions[s].page = ConnectionFailedPage
                  /\ sessions[s].pc = "autoload" => sessions[s].page = NotRendered)
    /\ [][\A s \in Sessions :
            sessions[s].conn_initialized =>
                /\ sessions'[s].conn_initialized
                /\ sessions'[s].connected = sessions[s].connected
                /\ sessions'[s].conn = sessions[s].conn]_vars

\* one session on the Connection Failed page after its failed attempt, and
\* another, connected, in a later page run
Witness_C24 ==
    \E s, t \in Sessions :
        /\ sessions[s].conn_initialized /\ ~sessions[s].connected
        /\ sessions[s].pc = "idle" /\ sessions[s].page = ConnectionFailedPage
        /\ sessions[t].connected /\ sessions[t].data_loaded
        /\ sessions[t].pc = "render"

\* C25: data_loaded implies connected; data_loaded is set only by a count
\* check that saw records or by a load whose write succeeded; the main content
\* starts and runs only with connected and data_loaded; neither flag goes
\* back to false
Claim_C25 ==
    /\ [](\A s \in Sessions :
            /\ sessions[s].data_loaded => sessions[s].connected
            /\ sessions[s].pc \in {"fetch_reorder", "render"}
                  => (sessions[s].connected /\ sessions[s].data_loaded)
            /\ sessions[s].page.outcome \in {"rendered", "error"}
                  => (sessions[s].connected /\ sessions[s].data_loaded))
    /\ [][\A s \in Sessions :
            /\ sessions[s].data_loaded => sessions'[s].data_loaded
            /\ sessions[s].connected => sessions'[s].connected
            /\ (~sessions[s].data_loaded /\ sessions'[s].data_loaded) =>
                  \/ /\ sessions[s].pc = "autoload"
                     /\ stock_records_exists /\ Len(records) > 0
                  \/ /\ sessions[s].pc = "load_write"
                     /\ records' = write_pandas(records, csv)
            /\ (sessions[s].pc # "fetch_reorder" /\ sessions'[s].pc = "fetch_reorder")
                  => (sessions[s].connected /\ sessions[s].data_loaded)]_vars

\* one session in the main content with both flags, beside a connected one
\* that has not loaded
Witness_C25 ==
    \E s, t \in Sessions :
        /\ sessions[s].connected /\ sessions[s].data_loaded
        /\ sessions[s].pc = "render"
        /\ sessions[t].connected /\ ~sessions[t].data_loaded
        /\ sessions[t].pc \in LoadPcs

\* C26: a load that returns False leaves data_loaded false and the connection
\* as it is and ends the run on the Loading Data placeholder; the next run
\* of the session goes through the count check again, into the load when
\* there are still no records; and once data_loaded is set the rerun goes
\* into the main content
Claim_C26 ==
    /\ [](\A s \in Sessions :
            sessions[s].page = LoadingDataPage =>
                /\ sessions[s].connected /\ ~sessions[s].data_loaded
                /\ sessions[s].pc = "idle")
    /\ [][\A s \in Sessions :
            /\ (sessions[s].pc \in LoadPcs /\ sessions'[s].pc \notin LoadPcs
                  /\ ~sessions'[s].data_loaded) =>
                  /\ sessions'[s].pc = "idle"
                  /\ sessions'[s].page = LoadingDataPage
                  /\ sessions'[s].connected = sessions[s].connected
                  /\ sessions'[s].conn = sessions[s].conn
                  /\ sessions'[s].conn_initialized = sessions[s].conn_initialized
            /\ (sessions[s].page = LoadingDataPage /\ sessions'[s] # sessions[s]) =>
                  /\ sessions'[s].pc = "autoload"
                  /\ ~sessions'[s].data_loaded
            /\ (sessions[s].pc = "autoload" /\ sessions[s].connected
                  /\ ~sessions[s].data_loaded /\ sessions'[s] # sessions[s]) =>
                  IF ~stock_records_exists \/ Len(records) = 0
                  THEN sessions'[s].pc = "load_create_table"
                  ELSE sessions'[s].data_loaded /\ sessions'[s].pc = "autoload"
            /\ (sessions[s].pc = "autoload" /\ sessions[s].data_loaded
                  /\ sessions'[s] # sessions[s]) =>
                  \/ sessions'[s].pc = "fetch_reorder"
                  \/ sessions'[s].page = ErrorFetchingData]_vars

\* a session on the Loading Data placeholder after a load that failed at the
\* write, the derived tables being there and STOCK_RECORDS empty
Witness_C26 ==
    \E s \in Sessions :
        /\ sessions[s].page = LoadingDataPage
        /\ sessions[s].pc = "idle"
        /\ status_table.exists /\ reorder_table.exists
        /\ Len(csv) > 0 /\ Len(records) = 0

\* C27: a load ends in one of two ways and no other: it returns True, after
\* the write has appended the file, or it returns False, from a statement
\* that can raise, writing nothing; a DROP never ends it
Claim_C27 ==
    [][\A s \in Sessions :
          (sessions[s].pc \in LoadPcs /\ sessions'[s] # sessions[s]) =>
              /\ \/ sessions'[s].pc \in LoadPcs
                 \/ /\ sessions[s].pc = "load_write"
                    /\ records' = write_pandas(records, csv)
                    /\ sessions'[s].data_loaded
                    /\ sessions'[s].pc = "autoload"
                 \/ /\ sessions[s].pc \in LoadRaisingPcs
                    /\ records' = records
                    /\ sessions'[s].data_loaded = sessions[s].data_loaded
                    /\ sessions'[s].pc = "idle"
                    /\ sessions'[s].page = LoadingDataPage
              /\ sessions[s].pc \in {"load_drop_reorder", "load_drop_status"}
                    => sessions'[s].pc \in LoadPcs]_vars

\* the only session there is goes on with its load after a DROP of
\* REORDER_RECOMMENDATIONS that left the table in place
Witness_C27 ==
    \E s \in Sessions :
        /\ sessions[s].pc = "load_drop_status"
        /\ reorder_table.exists
        /\ \A t \in Sessions \ {s} : sessions[t] = NewSession

-----------------------------------------------------------------------------
(* The quantity of a recommendation *)

\* the entry of REORDER_RECOMMENDATIONS comes from records without a
\* negative field
FromNonNegativeRecords(r) ==
    \A i \in 1..Len(records) :
        KeyOf(records[i]) = KeyOf(r) => ~HasNegativeField(records[i])

\* avg_daily_usage * (lead_time_days + buffer) - current_stock of an entry
UnroundedOf(r, buffer) ==
    OrderQuantityUnrounded(r.avg_daily_usage, r.lead_time_days, r.current_stock, buffer)

\* C29: every WARNING entry of REORDER_RECOMMENDATIONS has an average usage
\* of at least 1/7, an unrounded quantity of at least 15 times that usage,
\* and a recommended_order_quantity above 0
Claim_C29 ==
    reorder_table.exists =>
        \A r \in reorder_table.rows :
            r.stock_status = "WARNING" =>
                /\ 7 * r.avg_daily_usage.num >= r.avg_daily_usage.den
                /\ UnroundedOf(r, WarningBufferDays).num
                       >= 15 * r.avg_daily_usage.num
                /\ r.recommended_order_quantity > 0

\* the same over the entries that come from records without a negative field
WarningQuantityOfNonNegativeRecords ==
    reorder_table.exists =>
        \A r \in reorder_table.rows :
            (r.stock_status = "WARNING" /\ FromNonNegativeRecords(r)) =>
                /\ 7 * r.avg_daily_usage.num >= r.avg_daily_usage.den
                /\ UnroundedOf(r, WarningBufferDays).num
                       >= 15 * r.avg_daily_usage.num
                /\ r.recommended_order_quantity > 0

\* C30: a CRITICAL entry with average usage 0 is in REORDER_RECOMMENDATIONS
\* and in the list of get_reorder_recommendations with priority 1 and
\* quantity 0; and a CRITICAL entry has quantity 0 exactly when
\* avg_daily_usage * (lead_time_days + 30) - current_stock rounds to 0 or less
Claim_C30 ==
    /\ (status_table.exists /\ reorder_table.exists
          /\ reorder_table.rows = ReorderRecommendationsQuery(status_table.rows)) =>
          \A s \in status_table.rows :
              (s.stock_status = "CRITICAL" /\ s.avg_daily_usage.num = 0) =>
                  \E r \in reorder_table.rows :
                      /\ KeyOf(r) = KeyOf(s)
                      /\ r.priority = PriorityCritical
                      /\ r.recommended_order_quantity = 0
    /\ reorder_df # NotFetched =>
          \A r \in reorder_table.rows :
              (r.stock_status = "CRITICAL" /\ r.avg_daily_usage.num = 0) =>
                  \E i \in 1..Len(reorder_df.rows) :
                      /\ reorder_df.rows[i] = r
                      /\ r.priority = PriorityCritical
                      /\ r.recommended_order_quantity = 0
    /\ reorder_table.exists =>
          \A r \in reorder_table.rows :
              r.stock_status = "CRITICAL" =>
                  (r.recommended_order_quantity = 0
                      <=> Round0(UnroundedOf(r, CriticalBufferDays)) <= 0)

\* the same with the first two parts over the entries that come from records
\* without a negative field
CriticalQuantityOfNonNegativeRecords ==
    /\ (status_table.exists /\ reorder_table.exists
          /\ reorder_table.rows = ReorderRecommendationsQuery(status_table.rows)) =>
          \A s \in status_table.rows :
              (s.stock_status = "CRITICAL" /\ s.avg_daily_usage.num = 0
                  /\ FromNonNegativeRecords(s)) =>
                  \E r \in reorder_table.rows :
                      /\ KeyOf(r) = KeyOf(s)
                      /\ r.priority = PriorityCritical
                      /\ r.recommended_order_quantity = 0
    /\ reorder_df # NotFetched =>
          \A r \in reorder_table.rows :
              (r.stock_status = "CRITICAL" /\ r.avg_daily_usage.num = 0
                  /\ FromNonNegativeRecords(r)) =>
                  \E i \in 1..Len(reorder_df.rows) :
                      /\ reorder_df.rows[i] = r
                      /\ r.priority = PriorityCritical
                      /\ r.recommended_order_quantity = 0
    /\ reorder_table.exists =>
          \A r \in reorder_table.rows :
              r.stock_status = "CRITICAL" =>
                  (r.recommended_order_quantity = 0
                      <=> Round0(UnroundedOf(r, CriticalBufferDays)) <= 0)

=============================================================================
